---- MODULE Spec2Model ----
(***************************************************************************)
(* hr-id: a validated human-readable identifier (Id), the unchecked        *)
(* constant Label, and the serde / destream / async-hash adapters.         *)
(*                                                                         *)
(* A string is a sequence of Unicode code points (naturals); a byte        *)
(* sequence is a sequence of naturals below 256.                           *)
(***************************************************************************)
EXTENDS Integers, Naturals, Sequences, FiniteSets, TLC

VARIABLES cur, held, obs, dec

vars == <<cur, held, obs, dec>>

(***************************************************************************)
(* The fields of the model's records.  Every record lists its fields in    *)
(* the order of this table.                                                *)
(***************************************************************************)
Fields ==
    [adapter   |-> "dec: deserialize or from_stream",
     arg       |-> "cur, obs: the argument of the construction",
     chan      |-> "result: the error type that carries the message",
     detail    |-> "message: the offending byte, pattern or match",
     eq        |-> "comparison: a == b",
     gt        |-> "comparison: b < a",
     hash_eq   |-> "comparison: a and b feed the hasher the same bytes",
     id        |-> "result, held: the Id; label: its text",
     id_label  |-> "comparison: Id == Label",
     id_str    |-> "comparison: Id == str",
     id_string |-> "comparison: Id == String",
     id_strref |-> "comparison: Id == &str",
     inner     |-> "Id: the text",
     key       |-> "dec: the key next_key delivered",
     kind      |-> "message: its category",
     label_id  |-> "comparison: Label == Id",
     lt        |-> "comparison: a < b",
     msg       |-> "result: the message of the error",
     op        |-> "cur: the construction",
     orig      |-> "dec: the Id whose encoding is decoded",
     origVia   |-> "dec: the construction that made orig",
     other     |-> "obs: the second operand",
     phase     |-> "dec: where the decode stands",
     res       |-> "cur, dec: the result",
     ret       |-> "obs: what the operation returned",
     shape     |-> "token: text, map, map0 or other",
     some      |-> "held: whether an Id is held",
     src       |-> "dec: an external token or an encoded Id",
     strref_id |-> "comparison: &str == Id",
     subj      |-> "obs: the Id operated on",
     tag       |-> "result: ok, err, panic or none",
     text      |-> "message: the candidate; token: the text or the first key",
     trace     |-> "dec: the steps taken, in order",
     value     |-> "token: the value of the first key, empty or nonempty",
     via       |-> "held, obs: the construction that made the Id",
     what      |-> "obs: the operation",
     wire      |-> "dec: the token being decoded"]

(***************************************************************************)
(* Bounds of the model.                                                    *)
(***************************************************************************)
\* longest candidate string handed to the parser
MaxLen == 2
\* integers 0..MaxInt are converted (plus a few larger samples)
MaxInt == 2
\* longest digest (in bytes) converted to an Id
MaxDigestLen == 2

(***************************************************************************)
(* Characters.  Alphabet holds one or two members of every class the       *)
(* validator distinguishes:                                                *)
(*   9     TAB            control and whitespace                           *)
(*   32    SPACE          whitespace                                       *)
(*   46    '.'            harmless alone, reserved when doubled            *)
(*   47    '/'            reserved                                         *)
(*   49    '1'            digit                                            *)
(*   97    'a'            letter                                           *)
(*   233   U+00E9         non-ASCII, low byte 0xE9                         *)
(*   256   U+0100         non-ASCII, low byte 0x00                         *)
(*   8195  U+2003 EM SPACE, Unicode whitespace, low byte 0x03              *)
(***************************************************************************)
Alphabet == {9, 32, 46, 47, 49, 97, 233, 256, 8195}

Strings == UNION {[1..n -> Alphabet] : n \in 0..MaxLen}

\* the characters the regex class \s matches (Unicode White_Space)
IsRegexSpace(c) ==
    \/ c \in 9..13
    \/ c \in {32, 133, 160, 5760, 8232, 8233, 8239, 8287, 12288}
    \/ c \in 8192..8202

\* `c as u8`: the cast keeps the low eight bits of the code point
AsU8(c) == c % 256

\* str::contains with a string pattern
Contains(s, pat) ==
    \E i \in 1..(Len(s) - Len(pat) + 1) : SubSeq(s, i, i + Len(pat) - 1) = pat

\* str::starts_with
starts_with(s, prefix) ==
    /\ Len(prefix) <= Len(s)
    /\ SubSeq(s, 1, Len(prefix)) = prefix

Min(S) == CHOOSE x \in S : \A y \in S : x <= y

\* the UTF-8 encoding of one code point of the Basic Multilingual Plane
Utf8Char(c) ==
    IF c < 128 THEN <<c>>
    ELSE IF c < 2048 THEN <<192 + (c \div 64), 128 + (c % 64)>>
    ELSE <<224 + (c \div 4096), 128 + ((c \div 64) % 64), 128 + (c % 64)>>

RECURSIVE Utf8(_)
\* str::as_bytes
Utf8(s) == IF s = <<>> THEN <<>> ELSE Utf8Char(Head(s)) \o Utf8(Tail(s))

(***************************************************************************)
(* RESERVED_CHARS, in the order of the array.                              *)
(***************************************************************************)
RESERVED_CHARS ==
    << <<47>>, <<46, 46>>, <<126>>, <<36>>, <<96>>, <<38>>, <<124>>, <<61>>,
       <<94>>, <<123>>, <<125>>, <<60>>, <<62>>, <<39>>, <<34>>, <<63>>,
       <<58>>, <<64>>, <<35>>, <<40>>, <<41>> >>

(***************************************************************************)
(* ParseError: the message, kept as its category and its arguments.        *)
(*   "empty"       cannot construct an empty Id                            *)
(*   "control"     Id {text} contains ASCII control characters {detail}    *)
(*   "reserved"    Id {text} contains disallowed pattern {detail}          *)
(*   "whitespace"  Id {text} is not allowed to contain whitespace {detail} *)
(***************************************************************************)
ParseError(kind, text, detail) == [detail |-> detail, kind |-> kind, text |-> text]

NoMsg == ParseError("none", <<>>, <<>>)

\* struct Id { inner: Arc<str> }
Id(s) == [inner |-> s]

NoId == Id(<<>>)

as_str(id) == id.inner

\* results: Ok(Id), Err(message) on some error channel, or a panic
Ok(id) == [chan |-> "none", id |-> id, msg |-> NoMsg, tag |-> "ok"]

Err(chan, msg) == [chan |-> chan, id |-> NoId, msg |-> msg, tag |-> "err"]

Panic == [chan |-> "none", id |-> NoId, msg |-> NoMsg, tag |-> "panic"]

NoResult == [chan |-> "none", id |-> NoId, msg |-> NoMsg, tag |-> "none"]

(***************************************************************************)
(* validate_id                                                             *)
(***************************************************************************)
\* positions of the characters the control-character filter keeps
InvalidChars(id) == {i \in 1..Len(id) : AsU8(id[i]) < 32}

\* indices of the reserved patterns the candidate contains
ReservedHits(id) == {k \in 1..Len(RESERVED_CHARS) : Contains(id, RESERVED_CHARS[k])}

\* positions the whitespace regex matches
WhitespaceHits(id) == {i \in 1..Len(id) : IsRegexSpace(id[i])}

\* a validator that omits the whitespace rule
validate_id_no_whitespace_check(id) ==
    IF id = <<>> THEN ParseError("empty", <<>>, <<>>)
    ELSE IF InvalidChars(id) # {}
         THEN ParseError("control", id, <<AsU8(id[Min(InvalidChars(id))])>>)
    ELSE IF ReservedHits(id) # {}
         THEN ParseError("reserved", id, RESERVED_CHARS[Min(ReservedHits(id))])
    ELSE NoMsg

\* NoMsg stands for Ok(()), any other message for Err(message)
validate_id(id) ==
    IF id = <<>> THEN ParseError("empty", <<>>, <<>>)
    ELSE IF InvalidChars(id) # {}
         THEN ParseError("control", id, <<AsU8(id[Min(InvalidChars(id))])>>)
    ELSE IF ReservedHits(id) # {}
         THEN ParseError("reserved", id, RESERVED_CHARS[Min(ReservedHits(id))])
    ELSE IF WhitespaceHits(id) # {}
         THEN ParseError("whitespace", id, <<id[Min(WhitespaceHits(id))]>>)
    ELSE NoMsg

\* impl FromStr for Id
from_str(id) ==
    IF validate_id(id) # NoMsg THEN Err("parse", validate_id(id))
    ELSE Ok(Id(id))

(***************************************************************************)
(* Conversions into an Id.                                                 *)
(***************************************************************************)
\* Result::expect: the value, or a panic
expect(r) == IF r.tag = "ok" THEN r ELSE Panic

\* Result::ok: the value, or None
ok(r) == IF r.tag = "ok" THEN r ELSE NoResult

RECURSIVE to_string(_)
\* the decimal rendering of an unsigned integer
to_string(n) ==
    IF n < 10 THEN <<48 + n>>
    ELSE Append(to_string(n \div 10), 48 + (n % 10))

\* impl From<u64> for Id
from_u64(i) == expect(from_str(to_string(i)))

\* impl From<usize> for Id
from_usize(u) == expect(from_str(to_string(u)))

\* struct Label { id: &'static str } and the const fn label
label(id) == [id |-> id]

\* impl From<Label> for Id
from_label(l) == Ok(Id(l.id))

\* impl TryCastFrom<String> for Id
can_cast_from_string(id) == validate_id(id) = NoMsg

opt_cast_from_string(id) == ok(from_str(id))

HexDigit(d) == IF d < 10 THEN 48 + d ELSE 87 + d

RECURSIVE hex_encode(_)
\* hex::encode: two lowercase hexadecimal digits per byte
hex_encode(bytes) ==
    IF bytes = <<>> THEN <<>>
    ELSE <<HexDigit(Head(bytes) \div 16), HexDigit(Head(bytes) % 16)>>
         \o hex_encode(Tail(bytes))

\* impl From<GenericArray<T, U>> for Id
from_generic_array(hash) == expect(from_str(hex_encode(hash)))

\* Uuid::to_string: the hyphenated lowercase form 8-4-4-4-12
uuid_to_string(u) ==
    hex_encode(SubSeq(u, 1, 4)) \o <<45>> \o hex_encode(SubSeq(u, 5, 6)) \o <<45>>
    \o hex_encode(SubSeq(u, 7, 8)) \o <<45>> \o hex_encode(SubSeq(u, 9, 10)) \o <<45>>
    \o hex_encode(SubSeq(u, 11, 16))

\* impl From<uuid::Uuid> for Id
from_uuid(u) == Ok(Id(uuid_to_string(u)))

(***************************************************************************)
(* Conversion of an Id into usize: str::parse::<usize>.                    *)
(***************************************************************************)
IsDigit(c) == c \in 48..57

RECURSIVE DigitsValue(_)
DigitsValue(ds) ==
    IF ds = <<>> THEN 0
    ELSE DigitsValue(SubSeq(ds, 1, Len(ds) - 1)) * 10 + (ds[Len(ds)] - 48)

RECURSIVE StripZeros(_)
StripZeros(ds) == IF ds # <<>> /\ Head(ds) = 48 THEN StripZeros(Tail(ds)) ELSE ds

\* usize::MAX on a 64-bit target, as its decimal digits
UsizeMaxDigits ==
    <<49, 56, 52, 52, 54, 55, 52, 52, 48, 55, 51, 55, 48, 57, 53, 53, 49, 54, 49, 53>>

\* whether digit string x denotes a larger number than digit string y
DigitsGreater(x, y) ==
    LET a == StripZeros(x)
        b == StripZeros(y)
    IN  \/ Len(a) > Len(b)
        \/ /\ Len(a) = Len(b)
           /\ \E i \in 1..Len(a) :
                /\ a[i] > b[i]
                /\ \A j \in 1..(i - 1) : a[j] = b[j]

\* <<n>> stands for Ok(n) and <<>> for an Err
parse_usize(s) ==
    LET ds == IF s # <<>> /\ Head(s) = 43 THEN Tail(s) ELSE s
    IN  IF ds = <<>> THEN <<>>
        ELSE IF \E i \in 1..Len(ds) : ~IsDigit(ds[i]) THEN <<>>
        ELSE IF DigitsGreater(ds, UsizeMaxDigits) THEN <<>>
        ELSE <<DigitsValue(ds)>>

\* a cast that reads the first digit only
usize_opt_cast_from_first_digit(id) ==
    IF as_str(id) # <<>> /\ IsDigit(Head(as_str(id)))
    THEN <<Head(as_str(id)) - 48>> ELSE <<>>

\* impl TryCastFrom<Id> for usize
usize_can_cast_from(id) == parse_usize(as_str(id)) # <<>>

usize_opt_cast_from(id) == parse_usize(as_str(id))

(***************************************************************************)
(* Comparisons.                                                            *)
(***************************************************************************)
\* a comparison that lets the lengths decide first
BytesCmpShortlex(x, y) ==
    IF Len(x) # Len(y) THEN (IF Len(x) < Len(y) THEN "Less" ELSE "Greater")
    ELSE LET diff == {i \in 1..Len(x) : x[i] # y[i]}
         IN  IF diff = {} THEN "Equal"
             ELSE IF x[Min(diff)] < y[Min(diff)] THEN "Less" ELSE "Greater"

\* <[u8] as Ord>::cmp: the first differing byte decides, then the lengths
BytesCmp(x, y) ==
    LET l == IF Len(x) < Len(y) THEN Len(x) ELSE Len(y)
        diff == {i \in 1..l : x[i] # y[i]}
    IN  IF diff # {}
        THEN (IF x[Min(diff)] < y[Min(diff)] THEN "Less" ELSE "Greater")
        ELSE IF Len(x) < Len(y) THEN "Less"
        ELSE IF Len(x) > Len(y) THEN "Greater"
        ELSE "Equal"

\* str == str and str::partial_cmp work on the UTF-8 bytes
StrEq(s, t) == Utf8(s) = Utf8(t)

StrCmp(s, t) == BytesCmp(Utf8(s), Utf8(t))

\* #[derive(Eq, PartialEq, Ord, PartialOrd, Hash)] struct Id
IdEq(a, b) == StrEq(a.inner, b.inner)

IdCmp(a, b) == StrCmp(a.inner, b.inner)

IdLt(a, b) == IdCmp(a, b) = "Less"

\* what the derived Hash feeds the hasher: the bytes, then 0xff
IdHashFeed(a) == Utf8(a.inner) \o <<255>>

\* impl PartialEq<String> for Id, PartialEq<str> for Id, PartialEq<&str> for Id
IdEqString(a, other) == StrEq(a.inner, other)

IdEqStr(a, other) == StrEq(a.inner, other)

IdEqStrRef(a, other) == StrEq(a.inner, other)

\* impl PartialEq<Id> for &str
StrRefEqId(s, other) == StrEq(s, other.inner)

\* impl PartialEq<Label> for Id
IdEqLabel(a, other) == StrEq(a.inner, other.id)

\* impl PartialEq<Id> for Label
LabelEqId(l, other) == StrEq(l.id, as_str(other))

\* impl PartialOrd<String> for Id, PartialOrd<str> for Id, PartialOrd<&str> for Id
IdPartialCmpStr(a, other) == StrCmp(a.inner, other)

(***************************************************************************)
(* Hash adapter.  Digest stands for the digest algorithm D the caller      *)
(* picks: here a two-byte Fletcher checksum.                               *)
(***************************************************************************)
RECURSIVE FletcherSums(_)
FletcherSums(bytes) ==
    IF bytes = <<>> THEN <<0, 0>>
    ELSE LET p == FletcherSums(SubSeq(bytes, 1, Len(bytes) - 1))
             s1 == (p[1] + bytes[Len(bytes)]) % 255
         IN  <<s1, (p[2] + s1) % 255>>

Digest(bytes) == FletcherSums(bytes)

\* a digest of the first byte only
hash_by_ref_first_byte(id) == Digest(SubSeq(Utf8(as_str(id)), 1, 1))

\* impl Hash<D> for Id
hash_by_value(id) == Digest(Utf8(as_str(id)))

\* impl Hash<D> for &Id
hash_by_ref(id) == Digest(Utf8(as_str(id)))

(***************************************************************************)
(* Wire tokens, as the decoder of the host framework presents them.        *)
(*   "text"   a bare text token                                            *)
(*   "map"    a keyed structure; text is its first key, value the shape    *)
(*            of that key's value: an "empty" or a "nonempty" sequence     *)
(*   "map0"   a keyed structure without entries                            *)
(*   "other"  any other token (a number, a sequence, ...)                  *)
(***************************************************************************)
TextToken(t) == [shape |-> "text", text |-> t, value |-> "none"]

MapToken(key, value) == [shape |-> "map", text |-> key, value |-> value]

EmptyMapToken == [shape |-> "map0", text |-> <<>>, value |-> "none"]

OtherToken == [shape |-> "other", text |-> <<>>, value |-> "none"]

\* an error the framework raises itself (wrong token type, malformed input)
FrameworkError == Err("framework", ParseError("framework", <<>>, <<>>))

\* Error::custom(e): the framework's error built from the Display text of e
custom(msg) == Err("custom", msg)

\* map_err(Error::custom) on a Result<Id, ParseError>
map_err_custom(r) == IF r.tag = "err" THEN custom(r.msg) ELSE r

(***************************************************************************)
(* serde adapter                                                           *)
(***************************************************************************)
\* impl Deserialize for Id: String::deserialize takes a text token only
deserialize(w) ==
    IF w.shape # "text" THEN FrameworkError
    ELSE IF validate_id(w.text) # NoMsg THEN custom(validate_id(w.text))
    ELSE Ok(Id(w.text))

\* an encoding as a keyed structure instead of a text token
serialize_keyed(id) == MapToken(as_str(id), "empty")

\* impl Serialize for Id
serialize(id) == TextToken(as_str(id))

(***************************************************************************)
(* destream adapter                                                        *)
(***************************************************************************)
\* IdVisitor::visit_string
visit_string(s) == map_err_custom(from_str(s))

\* the values of type [u8; 0]
ArrayU8x0 == {<<>>}

\* a visitor that rejects every keyed structure
visit_map_entry_rejects(key, value) == custom(ParseError("opref", <<>>, <<>>))

\* IdVisitor::visit_map, once the key and the value have been delivered
visit_map_entry(key, value) ==
    IF Len(value) = 0 THEN map_err_custom(from_str(key))
    ELSE custom(ParseError("opref", <<>>, <<>>))

\* IdVisitor::visit_map when next_key delivers None
visit_map_no_key == custom(ParseError("unable", <<>>, <<>>))

\* impl ToStream for Id
to_stream(id) == TextToken(as_str(id))

\* impl IntoStream for Id
into_stream(id) == TextToken(as_str(id))

(***************************************************************************)
(* Inputs.                                                                 *)
(***************************************************************************)
\* "a", "a1", U+00E9, "", "a ", "/", U+0100
Texts == {<<97>>, <<97, 49>>, <<233>>, <<>>, <<97, 32>>, <<47>>, <<256>>}

\* label("a"), label("a1"), label(""), label("a a"), label(U+0100)
Labels == {label(<<97>>), label(<<97, 49>>), label(<<>>), label(<<97, 32, 97>>),
           label(<<256>>)}

Ints == (0..MaxInt) \cup {10, 2147483647}

DigestBytes == {0, 171}

GenericArrays == UNION {[1..n -> DigestBytes] : n \in 0..MaxDigestLen}

Uuids ==
    {<<0, 0, 0, 0, 0, 0, 0, 0, 0, 0, 0, 0, 0, 0, 0, 0>>,
     <<18, 52, 86, 120, 154, 188, 77, 239, 143, 1, 35, 69, 103, 137, 171, 205>>}

\* tokens an external peer sends
Wires ==
    {TextToken(<<97>>), TextToken(<<97, 32>>),
     MapToken(<<97>>, "empty"), MapToken(<<97>>, "nonempty"),
     MapToken(<<47>>, "empty"),
     EmptyMapToken, OtherToken}

(***************************************************************************)
(* State.                                                                  *)
(*   cur   the last completed construction: operation, argument, result    *)
(*   held  a clone of an earlier Id, with the operation that made it       *)
(*   obs   what the last read-only operation on the current Id returned    *)
(*   dec   the decode in progress, or the one that made the current Id     *)
(***************************************************************************)
NoHeld == [id |-> NoId, some |-> FALSE, via |-> "none"]

NoObs == [arg |-> <<>>, other |-> <<>>, ret |-> <<>>, subj |-> NoId,
          via |-> "none", what |-> "none"]

IdleDec == [adapter |-> "none", key |-> <<>>, orig |-> NoId, origVia |-> "none",
            phase |-> "idle", res |-> NoResult, src |-> "none", trace |-> <<>>,
            wire |-> OtherToken]

Init ==
    /\ cur = [arg |-> <<>>, op |-> "none", res |-> NoResult]
    /\ held = NoHeld
    /\ obs = NoObs
    /\ dec = IdleDec

HasId == cur.res.tag = "ok"

\* the caller is suspended while its decode awaits the decoder
Awaiting == dec.phase \in {"decode_any", "next_key", "next_value"}

Free == dec.phase \in {"idle", "done", "cancelled"}

\* a construction completes: its result replaces the current one
Construct(op, arg, res) ==
    /\ Free
    /\ cur' = [arg |-> arg, op |-> op, res |-> res]
    /\ obs' = NoObs
    /\ dec' = IdleDec
    /\ UNCHANGED held

FromStr(s) == Construct("from_str", s, from_str(s))

TryCastFromString(s) == Construct("try_cast_from_string", s, opt_cast_from_string(s))

FromU64(n) == Construct("from_u64", <<n>>, from_u64(n))

FromUsize(n) == Construct("from_usize", <<n>>, from_usize(n))

FromLabel(l) == Construct("from_label", l.id, from_label(l))

FromUuid(u) == Construct("from_uuid", u, from_uuid(u))

FromGenericArray(b) == Construct("from_generic_array", b, from_generic_array(b))

\* Id::clone: the clone shares the payload
Clone ==
    /\ Free
    /\ HasId
    /\ held' = [id |-> Id(cur.res.id.inner), some |-> TRUE, via |-> cur.op]
    /\ UNCHANGED <<cur, obs, dec>>

(***************************************************************************)
(* Read-only operations on the current Id.                                 *)
(***************************************************************************)
Observe(what, other, ret) ==
    /\ Free
    /\ HasId
    /\ obs' = [arg |-> cur.arg, other |-> other, ret |-> ret, subj |-> cur.res.id,
               via |-> cur.op, what |-> what]
    /\ UNCHANGED <<cur, held, dec>>

HashByRef == Observe("hash_by_ref", <<>>, hash_by_ref(cur.res.id))

\* other: the digest by reference taken just before, if one was
HashByValue ==
    Observe("hash_by_value",
            IF obs.what = "hash_by_ref" THEN <<obs.ret>> ELSE <<>>,
            hash_by_value(cur.res.id))

CastToUsize == Observe("usize_opt_cast_from", <<>>, usize_opt_cast_from(cur.res.id))

\* the current Id against the held one
CompareIds ==
    /\ held.some
    /\ Observe("cmp_id", held.id.inner,
               [eq |-> IdEq(cur.res.id, held.id),
                gt |-> IdLt(held.id, cur.res.id),
                hash_eq |-> IdHashFeed(cur.res.id) = IdHashFeed(held.id),
                lt |-> IdLt(cur.res.id, held.id)])

CompareLabel(l) ==
    Observe("cmp_label", l.id,
            [id_label |-> IdEqLabel(cur.res.id, l),
             label_id |-> LabelEqId(l, cur.res.id)])

CompareText(t) ==
    Observe("cmp_text", t,
            [id_str |-> IdEqStr(cur.res.id, t),
             id_string |-> IdEqString(cur.res.id, t),
             id_strref |-> IdEqStrRef(cur.res.id, t),
             strref_id |-> StrRefEqId(t, cur.res.id)])

Serialize == Observe("serialize", <<>>, serialize(cur.res.id))

ToStream == Observe("to_stream", <<>>, to_stream(cur.res.id))

IntoStream == Observe("into_stream", <<>>, into_stream(cur.res.id))

(***************************************************************************)
(* Decoding.  A decode that completes is a construction.                   *)
(***************************************************************************)
Encoded(whats) == obs.what \in whats

Complete(res, events) ==
    /\ dec' = [dec EXCEPT !.phase = "done", !.res = res,
                          !.trace = dec.trace \o events]
    /\ cur' = [arg |-> dec.wire.text, op |-> dec.adapter, res |-> res]
    /\ obs' = NoObs
    /\ UNCHANGED held

\* Id::deserialize never suspends
DeserializeFrom(w, src) ==
    /\ Free
    /\ dec' = [adapter |-> "deserialize", key |-> <<>>,
               orig |-> IF src = "encoded" THEN obs.subj ELSE NoId,
               origVia |-> IF src = "encoded" THEN obs.via ELSE "none",
               phase |-> "done", res |-> deserialize(w), src |-> src,
               trace |-> <<"deserialize">>, wire |-> w]
    /\ cur' = [arg |-> w.text, op |-> "deserialize", res |-> deserialize(w)]
    /\ obs' = NoObs
    /\ UNCHANGED held

Deserialize(w) == DeserializeFrom(w, "external")

DeserializeEncoded == Encoded({"serialize"}) /\ DeserializeFrom(obs.ret, "encoded")

\* Id::from_stream calls decode_any and suspends
FromStreamFrom(w, src) ==
    /\ Free
    /\ dec' = [adapter |-> "from_stream", key |-> <<>>,
               orig |-> IF src = "encoded" THEN obs.subj ELSE NoId,
               origVia |-> IF src = "encoded" THEN obs.via ELSE "none",
               phase |-> "decode_any", res |-> NoResult, src |-> src,
               trace |-> <<"decode_any">>, wire |-> w]
    /\ UNCHANGED <<cur, held, obs>>

FromStream(w) == FromStreamFrom(w, "external")

FromStreamEncoded ==
    /\ Encoded({"to_stream", "into_stream"})
    /\ FromStreamFrom(obs.ret, "encoded")

\* the decoder presents a text token: visit_string, which never suspends
VisitString ==
    /\ dec.phase = "decode_any"
    /\ dec.wire.shape = "text"
    /\ Complete(visit_string(dec.wire.text), <<"visit_string", "from_str">>)

\* the decoder presents a keyed structure: visit_map asks for the key and suspends
VisitMap ==
    /\ dec.phase = "decode_any"
    /\ dec.wire.shape \in {"map", "map0"}
    /\ dec' = [dec EXCEPT !.phase = "next_key",
                          !.trace = dec.trace \o <<"visit_map", "next_key">>]
    /\ UNCHANGED <<cur, held, obs>>

\* a visitor that constructs the Id before asking for the value
NextKeySomeConstructsEarly ==
    /\ dec.phase = "next_key"
    /\ dec.wire.shape = "map"
    /\ Complete(map_err_custom(from_str(dec.wire.text)), <<"from_str">>)

\* next_key delivers Some(key): visit_map asks for the value and suspends
NextKeySome ==
    /\ dec.phase = "next_key"
    /\ dec.wire.shape = "map"
    /\ dec' = [dec EXCEPT !.phase = "next_value", !.key = dec.wire.text,
                          !.trace = dec.trace \o <<"next_value">>]
    /\ UNCHANGED <<cur, held, obs>>

\* next_key delivers None
NextKeyNone ==
    /\ dec.phase = "next_key"
    /\ dec.wire.shape = "map0"
    /\ Complete(visit_map_no_key, <<>>)

\* next_value delivers a [u8; 0]; the rest of visit_map never suspends
NextValue ==
    /\ dec.phase = "next_value"
    /\ \E value \in ArrayU8x0 :
         Complete(visit_map_entry(dec.key, value), <<"from_str">>)

\* the pending request returns an error of the decoder, which `?` passes on
AwaitFails ==
    /\ Awaiting
    /\ Complete(FrameworkError, <<"await_error">>)

\* the surrounding decode is dropped at a suspension point
Cancel ==
    /\ Awaiting
    /\ dec' = [dec EXCEPT !.phase = "cancelled"]
    /\ UNCHANGED <<cur, held, obs>>

(***************************************************************************)
(* Specifications.                                                         *)
(***************************************************************************)
Constructions ==
    \/ \E s \in Texts : FromStr(s)
    \/ \E s \in Texts : TryCastFromString(s)
    \/ \E n \in Ints : FromU64(n)
    \/ \E n \in Ints : FromUsize(n)
    \/ \E l \in Labels : FromLabel(l)
    \/ \E u \in Uuids : FromUuid(u)
    \/ \E b \in GenericArrays : FromGenericArray(b)

StreamSteps ==
    \/ VisitString
    \/ VisitMap
    \/ NextKeySome
    \/ NextKeyNone
    \/ NextValue
    \/ AwaitFails
    \/ Cancel

\* the parser alone, on every string over Alphabet up to MaxLen
NextParse ==
    \/ \E s \in Strings : FromStr(s)
    \/ \E s \in Strings : TryCastFromString(s)

SpecParse == Init /\ [][NextParse]_vars

\* every way to obtain an Id
NextIds ==
    \/ Constructions
    \/ Clone
    \/ \E w \in Wires : Deserialize(w)
    \/ \E w \in Wires : FromStream(w)
    \/ StreamSteps

SpecIds == Init /\ [][NextIds]_vars

\* constructions, and the comparisons, digests and casts of the results
NextCore ==
    \/ Constructions
    \/ Clone
    \/ HashByRef
    \/ HashByValue
    \/ CastToUsize
    \/ CompareIds
    \/ \E l \in Labels : CompareLabel(l)
    \/ \E t \in Texts : CompareText(t)

SpecCore == Init /\ [][NextCore]_vars

\* constructions, encoding and decoding
NextCodec ==
    \/ Constructions
    \/ Serialize
    \/ ToStream
    \/ IntoStream
    \/ \E w \in Wires : Deserialize(w)
    \/ DeserializeEncoded
    \/ \E w \in Wires : FromStream(w)
    \/ FromStreamEncoded
    \/ StreamSteps

SpecCodec == Init /\ [][NextCodec]_vars

(***************************************************************************)
(* The invariants of the data model, as the documentation states them.     *)
(***************************************************************************)
I1(s) == s # <<>>

I2(s) == \A i \in 1..Len(s) : s[i] >= 32

I3(s) == \A k \in 1..Len(RESERVED_CHARS) : ~Contains(s, RESERVED_CHARS[k])

I4(s) == \A i \in 1..Len(s) : ~IsRegexSpace(s[i])

SatisfiesInvariants(s) == I1(s) /\ I2(s) /\ I3(s) /\ I4(s)

\* the category of the first rule a string violates, in the documented order
FirstViolated(s) ==
    IF ~I1(s) THEN "empty"
    ELSE IF ~I2(s) THEN "control"
    ELSE IF ~I3(s) THEN "reserved"
    ELSE "whitespace"

(***************************************************************************)
(* C1.  Every string that is non-empty, has no character below U+0020,     *)
(* contains no reserved substring and no whitespace parses, and the Id's   *)
(* text is that string exactly, non-ASCII characters included.             *)
(* Fails: U+0100 is rejected, since the control check looks at the low     *)
(* byte of each code point.                                                *)
(***************************************************************************)
C1_ValidStringsParse ==
    (cur.op = "from_str" /\ SatisfiesInvariants(cur.arg))
        => (cur.res.tag = "ok" /\ as_str(cur.res.id) = cur.arg)

(***************************************************************************)
(* C2.  Every string violating a rule is rejected, and the message names   *)
(* the first violated rule in the order empty, control character,          *)
(* reserved substring, whitespace.                                         *)
(* Fails: U+2003 (whitespace, not a control character) is reported as a    *)
(* control character.                                                      *)
(***************************************************************************)
C2_ErrorNamesFirstViolatedRule ==
    (cur.op = "from_str" /\ ~SatisfiesInvariants(cur.arg))
        => (cur.res.tag = "err" /\ cur.res.msg.kind = FirstViolated(cur.arg))

(***************************************************************************)
(* C3.  Every Id the program holds, however it was constructed or cloned,  *)
(* satisfies I1-I4.                                                        *)
(* Fails as stated: From<Label> performs no check.                         *)
(***************************************************************************)
C3_EveryIdSatisfiesInvariants ==
    /\ HasId => SatisfiesInvariants(as_str(cur.res.id))
    /\ held.some => SatisfiesInvariants(as_str(held.id))

\* C3 as amended: every Id that was not converted from a Label, and every
\* clone of one, satisfies I1-I4; an Id converted from a Label carries the
\* label's text whatever it is.
C3_EveryCheckedIdSatisfiesInvariants ==
    /\ (HasId /\ cur.op # "from_label") => SatisfiesInvariants(as_str(cur.res.id))
    /\ (held.some /\ held.via # "from_label") => SatisfiesInvariants(as_str(held.id))
    /\ cur.op = "from_label" => (HasId /\ as_str(cur.res.id) = cur.arg)

\* C3, reached: an Id decoded from a stream has been cloned, and another one built from a digest
C3_Witness ==
    /\ held.some
    /\ held.via = "from_stream"
    /\ HasId
    /\ cur.op = "from_generic_array"

IsDigest(what) == what \in {"hash_by_value", "hash_by_ref"}

HexValue(c) == IF c \in 48..57 THEN c - 48 ELSE c - 87

\* text is the lowercase hexadecimal form of bytes
IsLowerHexOf(text, bytes) ==
    /\ Len(text) = 2 * Len(bytes)
    /\ \A i \in 1..Len(text) : text[i] \in (48..57) \cup (97..102)
    /\ \A i \in 1..Len(bytes) :
         HexValue(text[2 * i - 1]) * 16 + HexValue(text[2 * i]) = bytes[i]

IsFromInt(op) == op \in {"from_u64", "from_usize"}

\* text is the decimal form of n
IsDecimalOf(text, n) ==
    /\ text # <<>>
    /\ \A i \in 1..Len(text) : IsDigit(text[i])
    /\ Len(text) > 1 => text[1] # 48
    /\ DigitsValue(text) = n

(***************************************************************************)
(* C5.  Every unsigned integer converts to an Id without panicking, the    *)
(* Id's text is the decimal form of the integer, and casting the Id to     *)
(* usize gives the integer back.                                           *)
(***************************************************************************)
C5_IntegerRoundTrips ==
    /\ IsFromInt(cur.op) =>
         (cur.res.tag = "ok" /\ IsDecimalOf(as_str(cur.res.id), cur.arg[1]))
    /\ (obs.what = "usize_opt_cast_from" /\ IsFromInt(obs.via)) => obs.ret = obs.arg

\* C5, reached: the Id made from 2147483647 has been cast back
C5_Witness ==
    /\ obs.what = "usize_opt_cast_from"
    /\ obs.via = "from_u64"
    /\ obs.arg = <<2147483647>>
    /\ obs.ret = <<2147483647>>

\* x precedes y lexicographically: a proper prefix, or smaller where they first differ
BytewiseLess(x, y) ==
    \E k \in 0..Len(x) :
        /\ k <= Len(y)
        /\ \A j \in 1..k : x[j] = y[j]
        /\ \/ (k = Len(x) /\ k < Len(y))
           \/ (k < Len(x) /\ k < Len(y) /\ x[k + 1] < y[k + 1])

(***************************************************************************)
(* C6.  Comparisons go by the text: two Ids are equal exactly when their   *)
(* texts are, a < b exactly when a's bytes precede b's lexicographically   *)
(* (a strict total order), an Id equals a Label, a String, a str or a &str *)
(* exactly when the contents are equal, in either order of the arguments,  *)
(* and equal Ids feed the hasher the same bytes.                           *)
(***************************************************************************)
C6_ComparisonsGoByText ==
    /\ obs.what = "cmp_id" =>
         /\ obs.ret.eq <=> (as_str(obs.subj) = obs.other)
         /\ obs.ret.lt <=> BytewiseLess(Utf8(as_str(obs.subj)), Utf8(obs.other))
         /\ obs.ret.gt <=> BytewiseLess(Utf8(obs.other), Utf8(as_str(obs.subj)))
         /\ (obs.ret.lt /\ ~obs.ret.eq /\ ~obs.ret.gt)
              \/ (~obs.ret.lt /\ obs.ret.eq /\ ~obs.ret.gt)
              \/ (~obs.ret.lt /\ ~obs.ret.eq /\ obs.ret.gt)
         /\ obs.ret.eq => obs.ret.hash_eq
         /\ \A c \in Texts :
              (obs.ret.lt /\ IdLt(Id(obs.other), Id(c))) => IdLt(obs.subj, Id(c))
    /\ obs.what = "cmp_label" =>
         /\ obs.ret.id_label <=> (as_str(obs.subj) = obs.other)
         /\ obs.ret.label_id <=> (as_str(obs.subj) = obs.other)
    /\ obs.what = "cmp_text" =>
         /\ obs.ret.id_string <=> (as_str(obs.subj) = obs.other)
         /\ obs.ret.id_str <=> (as_str(obs.subj) = obs.other)
         /\ obs.ret.id_strref <=> (as_str(obs.subj) = obs.other)
         /\ obs.ret.strref_id <=> (as_str(obs.subj) = obs.other)

\* C6, reached: "10" has been compared with a held "a": smaller, though longer
C6_Witness ==
    /\ obs.what = "cmp_id"
    /\ as_str(obs.subj) = <<49, 48>>
    /\ obs.other = <<97>>
    /\ obs.ret.lt

\* the decode has completed without an error of the decoder's own
Delivered == dec.phase = "done" /\ \A i \in 1..Len(dec.trace) : dec.trace[i] # "await_error"

IsIdShape(w) == w.shape = "text" \/ (w.shape = "map" /\ w.value = "empty")

(***************************************************************************)
(* C7.  Both adapters decode a bare text token t and a keyed structure     *)
(* {t: []} to the Id t, when t passes validation.                          *)
(* Fails as stated: the serde adapter takes a text token only.             *)
(***************************************************************************)
C7_BothAdaptersTakeBothShapes ==
    (Delivered /\ IsIdShape(dec.wire) /\ validate_id(dec.wire.text) = NoMsg)
        => dec.res = Ok(Id(dec.wire.text))

\* C7 as amended: the destream adapter decodes both shapes to the Id t; the
\* serde adapter decodes the text token to the Id t and fails on every
\* other token with an error of the framework.
C7_StreamTakesBothShapes ==
    /\ (Delivered /\ dec.adapter = "from_stream" /\ IsIdShape(dec.wire)
          /\ validate_id(dec.wire.text) = NoMsg)
         => dec.res = Ok(Id(dec.wire.text))
    /\ (Delivered /\ dec.adapter = "deserialize" /\ dec.wire.shape = "text"
          /\ validate_id(dec.wire.text) = NoMsg)
         => dec.res = Ok(Id(dec.wire.text))
    /\ (Delivered /\ dec.adapter = "deserialize" /\ dec.wire.shape # "text")
         => dec.res = FrameworkError

\* C7, reached: the stream decoder has turned {"a": []} into the Id "a"
C7_Witness ==
    /\ Delivered
    /\ dec.adapter = "from_stream"
    /\ dec.wire = MapToken(<<97>>, "empty")
    /\ dec.res = Ok(Id(<<97>>))
    /\ cur.res = dec.res

(***************************************************************************)
(* C8.  A keyed structure whose key is a valid identifier and whose value  *)
(* is a non-empty sequence fails to decode, with the error "Expected Id    *)
(* but found OpRef".                                                       *)
(* Fails: the value is requested as a [u8; 0], which is always empty, so   *)
(* that error is never raised.                                             *)
(***************************************************************************)
C8_NonEmptyValueIsOpRef ==
    (dec.phase = "done" /\ dec.adapter = "from_stream" /\ dec.wire.shape = "map"
       /\ dec.wire.value = "nonempty" /\ validate_id(dec.wire.text) = NoMsg
       /\ \E i \in 1..Len(dec.trace) : dec.trace[i] = "next_value")
        => dec.res = custom(ParseError("opref", <<>>, <<>>))

IsEncode(what) == what \in {"serialize", "to_stream", "into_stream"}

\* the adapter has run the validator on the text it was given
Validated ==
    /\ Delivered
    /\ \/ dec.adapter = "deserialize" /\ dec.wire.shape = "text"
       \/ \E i \in 1..Len(dec.trace) : dec.trace[i] = "from_str"

EncodesAsText == IsEncode(obs.what) => obs.ret = TextToken(as_str(obs.subj))

MessageIsVerbatim ==
    (Validated /\ validate_id(dec.wire.text) # NoMsg)
        => dec.res = Err("custom", validate_id(dec.wire.text))

(***************************************************************************)
(* C9.  Each adapter encodes an Id as the bare text token of its text;     *)
(* decoding that token with the same adapter gives an equal Id; a decode   *)
(* that fails validation reports the validator's message unchanged.        *)
(* Fails as stated: an Id converted from a Label need not pass validation. *)
(***************************************************************************)
C9_EncodeDecodeRoundTrips ==
    /\ EncodesAsText
    /\ (Delivered /\ dec.src = "encoded") => (dec.res.tag = "ok" /\ dec.res.id = dec.orig)
    /\ MessageIsVerbatim

\* C9 as amended: the round trip holds for every Id that was not converted
\* from a Label; for an Id converted from a Label it holds exactly when the
\* label's text passes validation.
C9_CheckedIdsRoundTrip ==
    /\ EncodesAsText
    /\ (Delivered /\ dec.src = "encoded" /\ dec.origVia # "from_label")
         => (dec.res.tag = "ok" /\ dec.res.id = dec.orig)
    /\ (Delivered /\ dec.src = "encoded" /\ dec.origVia = "from_label")
         => IF validate_id(as_str(dec.orig)) = NoMsg
            THEN dec.res.tag = "ok" /\ dec.res.id = dec.orig
            ELSE dec.res = Err("custom", validate_id(as_str(dec.orig)))
    /\ MessageIsVerbatim

\* C9, reached: the Id of a UUID has gone through the stream encoder and decoder
C9_Witness ==
    /\ Delivered
    /\ dec.src = "encoded"
    /\ dec.adapter = "from_stream"
    /\ dec.origVia = "from_uuid"
    /\ dec.res = Ok(dec.orig)

KeyedOrder == <<"decode_any", "visit_map", "next_key", "next_value", "from_str">>

IsPrefix(s, t) == Len(s) <= Len(t) /\ SubSeq(t, 1, Len(s)) = s

Ended == dec.phase \in {"done", "cancelled"}

C10_StepsInOrder ==
    dec.adapter = "from_stream" =>
        /\ (dec.wire.shape \in {"map", "map0"} /\ dec.phase # "done")
             => IsPrefix(dec.trace, KeyedOrder)
        /\ (dec.wire.shape = "map" /\ dec.res.tag = "ok") => dec.trace = KeyedOrder
        /\ dec.phase # "done" =>
             /\ dec.res = NoResult
             /\ \A i \in 1..Len(dec.trace) : dec.trace[i] # "from_str"
        /\ dec.phase = "done" => cur.res = dec.res

\* a step of the decode, or after it
C10_EndedIsFinal ==
    /\ (Ended /\ dec.adapter = "from_stream" /\ dec' # dec)
         => (dec' = IdleDec \/ dec'.trace \in {<<"decode_any">>, <<"deserialize">>})
    /\ (Awaiting /\ dec'.phase = "cancelled")
         => (cur' = cur /\ dec'.res = NoResult)
    /\ (Awaiting /\ dec'.phase = "done" /\ dec'.res.tag # "ok")
         => cur'.res.tag # "ok"
    /\ (Awaiting /\ dec.wire.shape = "map" /\ dec'.res.tag = "ok")
         => dec.phase = "next_value"

(***************************************************************************)
(* C10.  A keyed structure is decoded in the order: await the key, await   *)
(* the value, validate and construct.  Nothing is validated or constructed *)
(* while a token is awaited; a decode that was cancelled, or failed, never *)
(* constructs an Id and is not taken up again.                             *)
(***************************************************************************)
C10_KeyedDecodeProtocol == [](C10_StepsInOrder) /\ [][C10_EndedIsFinal]_vars

\* C10, reached: a keyed structure has been decoded, all three steps in order
C10_Witness ==
    /\ dec.adapter = "from_stream"
    /\ dec.phase = "done"
    /\ dec.wire.shape = "map"
    /\ dec.res.tag = "ok"
    /\ dec.trace = KeyedOrder

====
